---- MODULE Spec2Model ----
(***************************************************************************)
(* UBuoyancyComponent (OceanPlugin): InitializeComponent and TickComponent *)
(* acting on the owned physics body (UpdatedPrimitive) and reading the     *)
(* wave-field provider (AOceanManager).                                    *)
(*                                                                         *)
(* float values are modelled as exact fractions n/d with the IEEE-754      *)
(* special values kept: d = 0 encodes +inf (n = 1), -inf (n = -1) and NaN  *)
(* (n = 0).  Rounding of finite results is not modelled.                   *)
(***************************************************************************)
EXTENDS Integers, Sequences, FiniteSets, TLC

\* ------------------------------------------------------------ float values

Sgn(i) == IF i > 0 THEN 1 ELSE IF i < 0 THEN -1 ELSE 0

AbsInt(i) == IF i < 0 THEN -i ELSE i

RECURSIVE GCD(_, _)
GCD(a, b) == IF b = 0 THEN a ELSE GCD(b, a % b)

\* the float n/d in lowest terms, d > 0; n/0 is an infinity or NaN
Norm(n, d) ==
    IF d = 0 THEN [n |-> Sgn(n), d |-> 0]
    ELSE LET s == Sgn(d)
             g == GCD(AbsInt(n), AbsInt(d))
         IN  [n |-> (s * n) \div g, d |-> (s * d) \div g]

F(i) == [n |-> i, d |-> 1]

Frac(n, d) == Norm(n, d)

Zero == F(0)

One == F(1)

PosInf == [n |-> 1, d |-> 0]

NegInf == [n |-> -1, d |-> 0]

NaN == [n |-> 0, d |-> 0]

IsNaN(a) == a.d = 0 /\ a.n = 0

IsFinite(a) == a.d > 0

FNeg(a) == [n |-> -a.n, d |-> a.d]

FAdd(a, b) ==
    IF a.d > 0 /\ b.d > 0 THEN Norm(a.n * b.d + b.n * a.d, a.d * b.d)
    ELSE IF IsNaN(a) \/ IsNaN(b) THEN NaN
    ELSE IF a.d = 0 /\ b.d = 0 THEN (IF a.n = b.n THEN a ELSE NaN)
    ELSE IF a.d = 0 THEN a ELSE b

FSub(a, b) == FAdd(a, FNeg(b))

FMul(a, b) ==
    IF a.d > 0 /\ b.d > 0 THEN Norm(a.n * b.n, a.d * b.d)
    ELSE Norm(Sgn(a.n) * Sgn(b.n), 0)

\* IEEE division: x/0 is an infinity of x's sign, 0/0 and inf/inf are NaN
FDiv(a, b) ==
    IF b.d = 0 THEN (IF a.d > 0 /\ b.n # 0 THEN Zero ELSE NaN)
    ELSE IF b.n = 0 THEN Norm(Sgn(a.n), 0)
    ELSE FMul(a, [n |-> Sgn(b.n) * b.d, d |-> AbsInt(b.n)])

\* operator < of float: false whenever an operand is NaN
FLess(a, b) ==
    IF IsNaN(a) \/ IsNaN(b) THEN FALSE
    ELSE IF a.d = 0 /\ b.d = 0 THEN a.n < b.n
    ELSE a.n * b.d < b.n * a.d

FGreater(a, b) == FLess(b, a)

FLeq(a, b) == ~IsNaN(a) /\ ~IsNaN(b) /\ ~FLess(b, a)

\* ------------------------------------------------------------ FVector

Vec(x, y, z) == <<x, y, z>>

IVec(x, y, z) == <<F(x), F(y), F(z)>>

ZeroVector == IVec(0, 0, 0)

VAdd(u, v) == <<FAdd(u[1], v[1]), FAdd(u[2], v[2]), FAdd(u[3], v[3])>>

VSub(u, v) == <<FSub(u[1], v[1]), FSub(u[2], v[2]), FSub(u[3], v[3])>>

VNeg(u) == <<FNeg(u[1]), FNeg(u[2]), FNeg(u[3])>>

\* FVector * float
VScale(u, s) == <<FMul(u[1], s), FMul(u[2], s), FMul(u[3], s)>>

\* FVector * FVector (component-wise)
VMulV(u, v) == <<FMul(u[1], v[1]), FMul(u[2], v[2]), FMul(u[3], v[3])>>

\* FVector ^ FVector (cross product)
VCross(u, v) ==
    << FSub(FMul(u[2], v[3]), FMul(u[3], v[2])),
       FSub(FMul(u[3], v[1]), FMul(u[1], v[3])),
       FSub(FMul(u[1], v[2]), FMul(u[2], v[1])) >>

\* floor of the square root, by bisection on lo..hi
RECURSIVE SqrtSearch(_, _, _)
SqrtSearch(lo, hi, i) ==
    IF lo >= hi THEN lo
    ELSE LET mid == (lo + hi + 1) \div 2
         IN  IF mid * mid <= i THEN SqrtSearch(mid, hi, i) ELSE SqrtSearch(lo, mid - 1, i)

ISqrt(i) == SqrtSearch(0, IF i < 46340 THEN i ELSE 46340, i)

LCM(a, b) == (a \div GCD(a, b)) * b

\* a finite vector u is <<m1, m2, m3>> / CommonDen(u) with integers m1, m2, m3
CommonDen(u) == LCM(LCM(u[1].d, u[2].d), u[3].d)

Scaled(u) == [i \in 1..3 |-> u[i].n * (CommonDen(u) \div u[i].d)]

SumSquares(u) == Scaled(u)[1] * Scaled(u)[1] + Scaled(u)[2] * Scaled(u)[2]
                 + Scaled(u)[3] * Scaled(u)[3]

\* FVector::Size, sqrt(X*X + Y*Y + Z*Z); the velocities of this model have
\* lengths that are fractions
Size(u) == Norm(ISqrt(SumSquares(u)), CommonDen(u))

\* X*X + Y*Y + Z*Z == 1.f
SquareSumIsOne(u) ==
    CommonDen(u) <= 46340 /\ SumSquares(u) = CommonDen(u) * CommonDen(u)

\* X*X + Y*Y + Z*Z < SMALL_NUMBER (1.e-8f), the default tolerance of
\* FVector::GetSafeNormal: SumSquares * 10^8 < CommonDen^2, with CommonDen
\* split as q * 10^4 + r
SquareSumBelowSmallNumber(u) ==
    LET q == CommonDen(u) \div 10000
        r == CommonDen(u) % 10000
    IN  SumSquares(u) <= q * q + (2 * q * r + (r * r - 1) \div 10000) \div 10000

\* FVector::GetSafeNormal: the vector itself when its squared length is 1,
\* the zero vector when it is below the tolerance, else the unit vector
GetSafeNormal(u) ==
    IF SquareSumIsOne(u) THEN u
    ELSE IF SquareSumBelowSmallNumber(u) THEN ZeroVector
    ELSE VScale(u, FDiv(One, Size(u)))

\* FMath::Sign
FSign(a) == IF FGreater(a, Zero) THEN One ELSE IF FLess(a, Zero) THEN FNeg(One) ELSE Zero

\* FMath::Clamp(X, Min, Max): X < Min ? Min : X < Max ? X : Max
Clamp(X, Min, Max) == IF FLess(X, Min) THEN Min ELSE IF FLess(X, Max) THEN X ELSE Max

\* abs applied to a float
FAbs(a) == [n |-> AbsInt(a.n), d |-> a.d]

\* ------------------------------------------------------------ bounds

\* longest TestPoints and PointDensityOverride arrays
MaxPoints == 2

\* InitializeComponent is not run again once the body's damping exceeds this
MaxDamping == 2

\* ------------------------------------------------------------ state

VARIABLES
    \* UBuoyancyComponent properties
    OceanManager,                \* TRUE when the pointer is set
    TestPointRadius,
    TestPoints,
    PointDensityOverride,
    ClampMaxVelocity,
    MaxUnderwaterVelocity,
    FluidLinearDamping,
    FluidAngularDamping,
    EnableStayUprightConstraint,
    DrawDebugPoints,
    \* UBuoyancyComponent private members
    _SignedRadius,
    _baseLinearDamping,
    _baseAngularDamping,
    initialized,                 \* InitializeComponent has run
    \* the world
    sceneHasOcean,               \* an AOceanManager actor exists in the world
    gravityZ,                    \* GetGravityZ()
    wave,                        \* the surface: height = a*x + b*y + c
    \* UpdatedComponent / UpdatedPrimitive, the owned physics body
    simulating,                  \* IsSimulatingPhysics()
    bodyInstanceValid,           \* GetBodyInstance() is non-null and valid
    mass,
    location,
    yaw,                         \* rotation about Z, in quarter turns
    linearVelocity,
    angularVelocity,
    linearDamping,
    angularDamping,
    \* observation
    lastOp,                      \* the handler or world step that ran last
    calls,                       \* what the last handler called on the engine
    PointsUnderWater,            \* the last integrating tick's counter
    originalLinearDamping,       \* the body's damping when the component was built
    originalAngularDamping

profileVars == <<OceanManager, TestPointRadius, TestPoints, PointDensityOverride,
                 ClampMaxVelocity, MaxUnderwaterVelocity, FluidLinearDamping,
                 FluidAngularDamping, EnableStayUprightConstraint, DrawDebugPoints>>

runtimeVars == <<_SignedRadius, _baseLinearDamping, _baseAngularDamping, initialized>>

worldVars == <<sceneHasOcean, gravityZ, wave>>

poseVars == <<location, yaw>>

motionVars == <<linearVelocity, angularVelocity>>

dampingVars == <<linearDamping, angularDamping>>

bodyVars == <<simulating, bodyInstanceValid, mass, poseVars, motionVars, dampingVars>>

ghostVars == <<originalLinearDamping, originalAngularDamping>>

vars == <<profileVars, runtimeVars, worldVars, bodyVars, lastOp, calls,
          PointsUnderWater, ghostVars>>

\* ------------------------------------------------------------ constructor defaults

MeshDensity == 600

FluidDensity == 1025

StayUprightStiffness == 50

StayUprightDamping == 5

VelocityDamper == Vec(Frac(1, 10), Frac(1, 10), Frac(1, 10))

\* ------------------------------------------------------------ engine queries

\* FTransform::TransformPosition with unit scale: rotate about Z, then translate
RotateYaw(k, p) ==
    IF k = 0 THEN p
    ELSE IF k = 1 THEN <<FNeg(p[2]), p[1], p[3]>>
    ELSE IF k = 2 THEN <<FNeg(p[1]), FNeg(p[2]), p[3]>>
    ELSE <<p[2], FNeg(p[1]), p[3]>>

TransformPosition(p) == VAdd(RotateYaw(yaw, p), location)

\* AOceanManager::GetWaveHeightValue: a position whose Z is the surface height
GetWaveHeightValue(pos) ==
    Vec(pos[1], pos[2], FAdd(FAdd(FMul(wave.a, pos[1]), FMul(wave.b, pos[2])), wave.c))

\* FBodyInstance::GetUnrealWorldVelocityAtPoint
GetUnrealWorldVelocityAtPoint(Point) ==
    VAdd(linearVelocity, VCross(angularVelocity, VSub(Point, location)))

GetVelocityAtPoint(Point) ==
    IF bodyInstanceValid THEN GetUnrealWorldVelocityAtPoint(Point) ELSE ZeroVector

\* TArray::IsValidIndex, on a 0-based index
IsValidIndex(array, index) == index >= 0 /\ index < Len(array)

\* TArray::operator[], on a 0-based index
At(array, index) == array[index + 1]

\* ------------------------------------------------------------ InitializeComponent

\* the first AOceanManager of the world when none is assigned
DetectOceanManager == IF ~OceanManager THEN sceneHasOcean ELSE OceanManager

\* the radius taken as configured
RadiusAsConfigured == TestPointRadius

NormalizedRadius == FAbs(TestPointRadius)

SignedRadius(radius) == FMul(FSign(gravityZ), radius)

ConstraintCalls ==
    IF EnableStayUprightConstraint
    THEN << [op |-> "CreateConstraint", at |-> location,
             stiffness |-> StayUprightStiffness, damping |-> StayUprightDamping] >>
    ELSE << >>

InitializeComponent ==
    /\ FLeq(linearDamping, F(MaxDamping))
    /\ FLeq(angularDamping, F(MaxDamping))
    /\ OceanManager' = DetectOceanManager
    /\ TestPointRadius' = NormalizedRadius
    /\ _SignedRadius' = SignedRadius(NormalizedRadius)
    /\ _baseLinearDamping' = linearDamping
    /\ _baseAngularDamping' = angularDamping
    /\ initialized' = TRUE
    /\ calls' = ConstraintCalls
    /\ lastOp' = "InitializeComponent"
    /\ PointsUnderWater' = 0
    /\ UNCHANGED <<TestPoints, PointDensityOverride, ClampMaxVelocity,
                   MaxUnderwaterVelocity, FluidLinearDamping, FluidAngularDamping,
                   EnableStayUprightConstraint, DrawDebugPoints>>
    /\ UNCHANGED <<worldVars, bodyVars, ghostVars>>

\* ------------------------------------------------------------ TickComponent

\* the tick going on without a provider
ProviderAssumed == TRUE

ProviderBound == OceanManager

TotalPoints == Len(TestPoints)

\* the test with >= in place of >
IsUnderwaterOrTouching(waveHeight, worldTestPoint) ==
    FLeq(FAdd(worldTestPoint[3], _SignedRadius), waveHeight)

\* waveHeight > (worldTestPoint.Z + _SignedRadius)
IsUnderwater(waveHeight, worldTestPoint) ==
    FGreater(waveHeight, FAdd(worldTestPoint[3], _SignedRadius))

\* the quotient without FMath::Clamp
DepthMultiplierUnclamped(waveHeight, worldTestPoint) ==
    FDiv(FSub(waveHeight, FAdd(worldTestPoint[3], _SignedRadius)),
         FMul(TestPointRadius, F(2)))

DepthMultiplier(waveHeight, worldTestPoint) ==
    Clamp(FDiv(FSub(waveHeight, FAdd(worldTestPoint[3], _SignedRadius)),
               FMul(TestPointRadius, F(2))),
          Zero, One)

\* the first override used for every point
PointDensityOfFirst(pointIndex) ==
    IF Len(PointDensityOverride) > 0 THEN PointDensityOverride[1] ELSE F(MeshDensity)

PointDensity(pointIndex) ==
    IF IsValidIndex(PointDensityOverride, pointIndex)
    THEN At(PointDensityOverride, pointIndex)
    ELSE F(MeshDensity)

\* GetMass() / PointDensity * FluidDensity * -GetGravityZ() / TotalPoints * DepthMultiplier
BuoyancyForceZ(pointIndex, depth) ==
    FMul(FDiv(FMul(FMul(FDiv(mass, PointDensity(pointIndex)), F(FluidDensity)),
                   FNeg(gravityZ)),
              F(TotalPoints)),
         depth)

\* -GetVelocityAtPoint(..) * VelocityDamper * GetMass() * DepthMultiplier
DampingForce(worldTestPoint, depth) ==
    VScale(VScale(VMulV(VNeg(GetVelocityAtPoint(worldTestPoint)), VelocityDamper), mass),
           depth)

PointForce(pointIndex, waveHeight, worldTestPoint) ==
    LET depth == DepthMultiplier(waveHeight, worldTestPoint)
        damp  == DampingForce(worldTestPoint, depth)
    IN  Vec(damp[1], damp[2], FAdd(damp[3], BuoyancyForceZ(pointIndex, depth)))

WorldTestPoint(pointIndex) == TransformPosition(At(TestPoints, pointIndex))

WaveHeightAt(worldTestPoint) == GetWaveHeightValue(worldTestPoint)[3]

PointIsUnderwater(pointIndex) ==
    IsUnderwater(WaveHeightAt(WorldTestPoint(pointIndex)), WorldTestPoint(pointIndex))

\* one iteration of the loop over the test points: the calls it makes
PointCalls(pointIndex) ==
    LET worldTestPoint == WorldTestPoint(pointIndex)
        waveHeight     == WaveHeightAt(worldTestPoint)
        isUnderwater   == PointIsUnderwater(pointIndex)
    IN  (IF isUnderwater
         THEN << [op |-> "AddForceAtLocation", pointIndex |-> pointIndex,
                  force |-> PointForce(pointIndex, waveHeight, worldTestPoint),
                  at |-> worldTestPoint] >>
         ELSE << >>)
        \o
        (IF DrawDebugPoints
         THEN << [op |-> "DrawDebugSphere", at |-> worldTestPoint,
                  radius |-> TestPointRadius, underwater |-> isUnderwater] >>
         ELSE << >>)

\* for (pointIndex = 0; pointIndex < TotalPoints; pointIndex++), from the
\* counter and the calls made so far
RECURSIVE ForEachPoint(_, _, _)
ForEachPoint(pointIndex, underWater, done) ==
    IF ~(pointIndex < TotalPoints)
    THEN [PointsUnderWater |-> underWater, calls |-> done]
    ELSE ForEachPoint(pointIndex + 1,
                      IF PointIsUnderwater(pointIndex) THEN underWater + 1 ELSE underWater,
                      done \o PointCalls(pointIndex))

\* the clamp applied whether or not a point is under water
ShouldClampVelocityAnywhere(underWater) ==
    /\ ClampMaxVelocity
    /\ FGreater(Size(linearVelocity), MaxUnderwaterVelocity)

ShouldClampVelocity(underWater) ==
    /\ ClampMaxVelocity
    /\ underWater > 0
    /\ FGreater(Size(linearVelocity), MaxUnderwaterVelocity)

ClampedVelocity == VScale(GetSafeNormal(linearVelocity), MaxUnderwaterVelocity)

\* the fluid damping added to the body's current damping, not to the base
CompoundingLinearDamping(underWater) ==
    FAdd(linearDamping,
         FMul(FDiv(FluidLinearDamping, F(Len(TestPoints))), F(underWater)))

\* _baseLinearDamping + FluidLinearDamping / TotalPoints * PointsUnderWater
NewLinearDamping(underWater) ==
    FAdd(_baseLinearDamping,
         FMul(FDiv(FluidLinearDamping, F(TotalPoints)), F(underWater)))

NewAngularDamping(underWater) ==
    FAdd(_baseAngularDamping,
         FMul(FDiv(FluidAngularDamping, F(TotalPoints)), F(underWater)))

\* the surface sampled at the world origin instead of the body's location
KinematicLocationFromOrigin ==
    Vec(location[1], location[2], GetWaveHeightValue(ZeroVector)[3])

\* the position the body is moved to when it is not simulating physics
KinematicLocation == Vec(location[1], location[2], GetWaveHeightValue(location)[3])

\* if (!OceanManager) return;
TickNoOceanManager ==
    /\ ~ProviderBound
    /\ calls' = << >>
    /\ PointsUnderWater' = 0
    /\ UNCHANGED <<bodyVars>>

\* if (!UpdatedComponent->IsSimulatingPhysics()) { SetWorldLocation(..., true); return; }
TickKinematic ==
    /\ ProviderBound
    /\ ~simulating
    /\ location' = KinematicLocation
    /\ calls' = << [op |-> "SetWorldLocation", to |-> KinematicLocation, sweep |-> TRUE] >>
    /\ PointsUnderWater' = 0
    /\ UNCHANGED <<simulating, bodyInstanceValid, mass, yaw, motionVars, dampingVars>>

\* an empty TestPoints falling through to the damping update
TickNoPointsUpdatingDamping ==
    /\ OceanManager
    /\ simulating
    /\ Len(TestPoints) < 1
    /\ calls' = << >>
    /\ PointsUnderWater' = 0
    /\ linearDamping' = _baseLinearDamping
    /\ angularDamping' = _baseAngularDamping
    /\ UNCHANGED <<simulating, bodyInstanceValid, mass, poseVars, motionVars>>

\* if (TotalPoints < 1) return;
TickNoPoints ==
    /\ ProviderBound
    /\ simulating
    /\ TotalPoints < 1
    /\ calls' = << >>
    /\ PointsUnderWater' = 0
    /\ UNCHANGED <<bodyVars>>

TickIntegrate ==
    /\ ProviderBound
    /\ simulating
    /\ ~(TotalPoints < 1)
    /\ LET loop       == ForEachPoint(0, 0, << >>)
           log        == loop.calls
           underWater == loop.PointsUnderWater
           clamp      == ShouldClampVelocity(underWater)
       IN  /\ PointsUnderWater' = underWater
           /\ linearVelocity' = IF clamp THEN ClampedVelocity ELSE linearVelocity
           /\ linearDamping' = NewLinearDamping(underWater)
           /\ angularDamping' = NewAngularDamping(underWater)
           /\ calls' = log
                       \o (IF clamp
                           THEN << [op |-> "SetPhysicsLinearVelocity", v |-> ClampedVelocity] >>
                           ELSE << >>)
                       \o << [op |-> "SetLinearDamping", d |-> NewLinearDamping(underWater)],
                             [op |-> "SetAngularDamping", d |-> NewAngularDamping(underWater)] >>
    /\ UNCHANGED <<simulating, bodyInstanceValid, mass, poseVars, angularVelocity>>

TickComponent ==
    /\ initialized
    /\ \/ TickNoOceanManager
       \/ TickKinematic
       \/ TickNoPoints
       \/ TickIntegrate
    /\ lastOp' = "TickComponent"
    /\ UNCHANGED <<profileVars, runtimeVars, worldVars, ghostVars>>

\* ------------------------------------------------------------ the world

\* the k-th test point of the body, at local (k-1, 0, 1-k)
TestPointAt(k) == IVec(k - 1, 0, 1 - k)

\* the body's first k test points
PointList(k) == [i \in 1..k |-> TestPointAt(i)]

\* the densities 300, 500, 700, ... for the first k points
OverrideList(k) == [i \in 1..k |-> F(100 + 200 * i)]

\* the point arrays a world S can hold
PointConfigs(S) ==
    {<<PointList(k), OverrideList(j)>> : k \in S.points, j \in S.overrides}

WorldStep ==
    /\ lastOp' = "World"
    /\ calls' = << >>
    /\ PointsUnderWater' = 0

\* the world's gravity changes
SetGravity(S) ==
    /\ \E g \in S.gravities \ {gravityZ} : gravityZ' = g
    /\ WorldStep
    /\ UNCHANGED <<profileVars, runtimeVars, sceneHasOcean, wave, bodyVars, ghostVars>>

\* the ocean moves on
MoveWave(S) ==
    /\ \E w \in S.waves \ {wave} : wave' = w
    /\ WorldStep
    /\ UNCHANGED <<profileVars, runtimeVars, sceneHasOcean, gravityZ, bodyVars, ghostVars>>

\* the engine moves the body
MoveBody(S) ==
    /\ \E b \in S.bodies :
          /\ b # [location |-> location, yaw |-> yaw,
                  linearVelocity |-> linearVelocity, angularVelocity |-> angularVelocity]
          /\ location' = b.location
          /\ yaw' = b.yaw
          /\ linearVelocity' = b.linearVelocity
          /\ angularVelocity' = b.angularVelocity
    /\ WorldStep
    /\ UNCHANGED <<profileVars, runtimeVars, worldVars, simulating, bodyInstanceValid,
                   mass, dampingVars, ghostVars>>

\* physics simulation of the body is switched on or off
SetSimulatePhysics(S) ==
    /\ \E b \in S.simulating \ {simulating} : simulating' = b
    /\ WorldStep
    /\ UNCHANGED <<profileVars, runtimeVars, worldVars, bodyInstanceValid, mass,
                   poseVars, motionVars, dampingVars, ghostVars>>

\* the point arrays are edited between ticks
SetTestPoints(S) ==
    /\ \E c \in PointConfigs(S) \ {<<TestPoints, PointDensityOverride>>} :
          /\ TestPoints' = c[1]
          /\ PointDensityOverride' = c[2]
    /\ WorldStep
    /\ UNCHANGED <<OceanManager, TestPointRadius, ClampMaxVelocity, MaxUnderwaterVelocity,
                   FluidLinearDamping, FluidAngularDamping, EnableStayUprightConstraint,
                   DrawDebugPoints>>
    /\ UNCHANGED <<runtimeVars, worldVars, bodyVars, ghostVars>>

\* another system sets the body's damping
SetBodyDamping(S) ==
    /\ \E d \in S.dampings \ {dampingVars} :
          /\ linearDamping' = d[1]
          /\ angularDamping' = d[2]
    /\ WorldStep
    /\ UNCHANGED <<profileVars, runtimeVars, worldVars, simulating, bodyInstanceValid,
                   mass, poseVars, motionVars, ghostVars>>

\* ------------------------------------------------------------ specification

\* the component as constructed and configured, in a world drawn from S
InitIn(S) ==
    /\ OceanManager \in S.assigned
    /\ sceneHasOcean \in S.scene
    /\ TestPointRadius \in S.radii
    /\ \E c \in PointConfigs(S) :
          /\ TestPoints = c[1]
          /\ PointDensityOverride = c[2]
    /\ \E c \in S.clamps :
          /\ ClampMaxVelocity = c[1]
          /\ MaxUnderwaterVelocity = c[2]
    /\ \E f \in S.fluids :
          /\ FluidLinearDamping = f[1]
          /\ FluidAngularDamping = f[2]
    /\ \E f \in S.flags :
          /\ EnableStayUprightConstraint = f[1]
          /\ DrawDebugPoints = f[2]
    /\ _SignedRadius = Zero
    /\ _baseLinearDamping = Zero
    /\ _baseAngularDamping = Zero
    /\ initialized = FALSE
    /\ gravityZ \in S.gravities
    /\ wave \in S.waves
    /\ simulating \in S.simulating
    /\ bodyInstanceValid \in S.valid
    /\ mass \in S.masses
    /\ \E b \in S.bodies :
          /\ location = b.location
          /\ yaw = b.yaw
          /\ linearVelocity = b.linearVelocity
          /\ angularVelocity = b.angularVelocity
    /\ linearDamping = S.damping[1]
    /\ angularDamping = S.damping[2]
    /\ originalLinearDamping = linearDamping
    /\ originalAngularDamping = angularDamping
    /\ lastOp = "Construct"
    /\ calls = << >>
    /\ PointsUnderWater = 0

\* the component's own handlers
Handlers ==
    \/ InitializeComponent
    \/ TickComponent

\* a surface of height a*x + b*y + c
Wave(a, b, c) == [a |-> a, b |-> b, c |-> c]

FlatWave(c) == Wave(Zero, Zero, c)

Body(l, y, v, w) == [location |-> l, yaw |-> y, linearVelocity |-> v, angularVelocity |-> w]

StillBody == Body(IVec(0, 0, 0), 0, IVec(0, 0, 0), IVec(0, 0, 0))

TurningBody == Body(IVec(1, 0, 1), 1, IVec(3, 4, 0), IVec(0, 0, 1))

\* provider lookup and activation
LifecycleWorld ==
    [ assigned   |-> BOOLEAN,
      scene      |-> BOOLEAN,
      radii      |-> {F(-2)},
      gravities  |-> {F(-980), F(0), F(980)},
      waves      |-> {FlatWave(F(1))},
      simulating |-> BOOLEAN,
      valid      |-> {TRUE},
      masses     |-> {F(1200)},
      bodies     |-> {StillBody, TurningBody},
      points     |-> {0, 1},
      overrides  |-> {0},
      clamps     |-> {<<TRUE, F(2)>>},
      fluids     |-> {<<F(1), F(1)>>},
      flags      |-> {<<TRUE, FALSE>>},
      damping    |-> <<Zero, Zero>>,
      dampings   |-> {<<Zero, Zero>>, <<F(1), F(2)>>} ]

Init == InitIn(LifecycleWorld)

Next ==
    \/ Handlers
    \/ SetGravity(LifecycleWorld)
    \/ MoveBody(LifecycleWorld)
    \/ SetSimulatePhysics(LifecycleWorld)
    \/ SetBodyDamping(LifecycleWorld)

Spec == Init /\ [][Next]_vars

\* the body that does not simulate physics
KinematicWorld ==
    [ assigned   |-> {TRUE},
      scene      |-> {FALSE},
      radii      |-> {F(1)},
      gravities  |-> {F(-980)},
      waves      |-> {FlatWave(F(5)), Wave(F(1), F(-1), Frac(1, 2))},
      simulating |-> BOOLEAN,
      valid      |-> {TRUE},
      masses     |-> {F(1200)},
      bodies     |-> {StillBody, TurningBody},
      points     |-> {0, 1},
      overrides  |-> {0},
      clamps     |-> {<<TRUE, F(2)>>},
      fluids     |-> {<<F(1), F(2)>>},
      flags      |-> {<<FALSE, TRUE>>},
      damping    |-> <<Zero, Zero>>,
      dampings   |-> {} ]

InitKinematic == InitIn(KinematicWorld)

NextKinematic ==
    \/ Handlers
    \/ MoveWave(KinematicWorld)
    \/ MoveBody(KinematicWorld)
    \/ SetSimulatePhysics(KinematicWorld)
    \/ SetTestPoints(KinematicWorld)

SpecKinematic == InitKinematic /\ [][NextKinematic]_vars

\* submersion, depth and force of each test point
ForceWorld ==
    [ assigned   |-> {TRUE},
      scene      |-> {TRUE},
      radii      |-> {F(-1), F(0), F(1)},
      gravities  |-> {F(-980), F(980)},
      waves      |-> {FlatWave(F(-1)), FlatWave(Frac(1, 2)), FlatWave(F(3)),
                      Wave(F(1), F(-1), Zero)},
      simulating |-> {TRUE},
      valid      |-> BOOLEAN,
      masses     |-> {F(600), F(1200)},
      bodies     |-> {StillBody, TurningBody},
      points     |-> 0..MaxPoints,
      overrides  |-> 0..MaxPoints,
      clamps     |-> {<<FALSE, F(1000)>>},
      fluids     |-> {<<Zero, Zero>>},
      flags      |-> {<<FALSE, FALSE>>, <<FALSE, TRUE>>},
      damping    |-> <<Zero, Zero>>,
      dampings   |-> {} ]

InitForce == InitIn(ForceWorld)

NextForce ==
    \/ Handlers
    \/ SetGravity(ForceWorld)
    \/ MoveWave(ForceWorld)
    \/ MoveBody(ForceWorld)
    \/ SetTestPoints(ForceWorld)

SpecForce == InitForce /\ [][NextForce]_vars

\* the damping of the body over ticks and activations, no other system
\* setting it
DampingWorld ==
    [ assigned   |-> {TRUE},
      scene      |-> {TRUE},
      radii      |-> {F(1)},
      gravities  |-> {F(-980)},
      waves      |-> {FlatWave(F(-2)), FlatWave(Frac(-3, 2)), FlatWave(F(3))},
      simulating |-> BOOLEAN,
      valid      |-> {TRUE},
      masses     |-> {F(1200)},
      bodies     |-> {StillBody},
      points     |-> 0..MaxPoints,
      overrides  |-> {0},
      clamps     |-> {<<FALSE, F(1000)>>},
      fluids     |-> {<<F(1), F(2)>>},
      flags      |-> {<<FALSE, FALSE>>},
      damping    |-> <<Frac(1, 2), Zero>>,
      dampings   |-> {} ]

InitDamping == InitIn(DampingWorld)

NextDamping ==
    \/ Handlers
    \/ MoveWave(DampingWorld)
    \/ SetSimulatePhysics(DampingWorld)
    \/ SetTestPoints(DampingWorld)

SpecDamping == InitDamping /\ [][NextDamping]_vars

\* the velocity clamp
ClampWorld ==
    [ assigned   |-> {TRUE},
      scene      |-> {TRUE},
      radii      |-> {F(1)},
      gravities  |-> {F(-1)},
      waves      |-> {FlatWave(F(-3)), FlatWave(F(3))},
      simulating |-> {TRUE},
      valid      |-> {TRUE},
      masses     |-> {F(1200)},
      bodies     |-> {StillBody,
                      Body(IVec(1, 0, 1), 1, IVec(6, 8, 0), IVec(0, 0, 1)),
                      Body(IVec(0, 0, 0), 0, IVec(0, 0, -10), IVec(0, 0, 0)),
                      Body(IVec(0, 0, 0), 0, Vec(Frac(1, 20000), Zero, Zero), IVec(0, 0, 0))},
      points     |-> {1, 2},
      overrides  |-> {0},
      clamps     |-> {<<FALSE, F(5)>>, <<TRUE, F(5)>>, <<TRUE, F(0)>>,
                      <<TRUE, F(-5)>>, <<TRUE, Frac(1, 40000)>>},
      fluids     |-> {<<F(1), F(1)>>},
      flags      |-> {<<FALSE, FALSE>>},
      damping    |-> <<Zero, Zero>>,
      dampings   |-> {} ]

InitClamp == InitIn(ClampWorld)

NextClamp ==
    \/ Handlers
    \/ MoveWave(ClampWorld)
    \/ MoveBody(ClampWorld)
    \/ SetTestPoints(ClampWorld)

SpecClamp == InitClamp /\ [][NextClamp]_vars

\* ------------------------------------------------------------ the claims' terms

TickRan == lastOp = "TickComponent"

\* the last handler was a tick that reached the integrator
Integrated == TickRan /\ OceanManager /\ simulating /\ TestPoints # << >>

\* the step is a tick that reaches the integrator
IntegratingTick == lastOp' = "TickComponent" /\ OceanManager /\ simulating /\ TestPoints # << >>

\* w_i, h_i and the submersion test of test point i (counted from 1)
WorldPointOf(i) == VAdd(RotateYaw(yaw, TestPoints[i]), location)

SurfaceAt(p) == FAdd(FAdd(FMul(wave.a, p[1]), FMul(wave.b, p[2])), wave.c)

Submerged(i) == FLess(FAdd(WorldPointOf(i)[3], _SignedRadius), SurfaceAt(WorldPointOf(i)))

SubmergedPoints == {i \in 1..Len(TestPoints) : Submerged(i)}

SubmergedFraction == FDiv(F(Cardinality(SubmergedPoints)), F(Len(TestPoints)))

CallsOf(log, op) == SelectSeq(log, LAMBDA c : c.op = op)

ForceCalls(log) == CallsOf(log, "AddForceAtLocation")

Forces == ForceCalls(calls)

\* ------------------------------------------------------------ C1

\* C1: after every tick that reaches the integrator, the body's linear damping
\* is baseLinearDamping + fluidLinearDamping * (submergedCount / totalPoints)
\* and its angular damping is baseAngularDamping + fluidAngularDamping *
\* (submergedCount / totalPoints), with this tick's count, whatever the damping
\* was before: base + fluid when every point is submerged, base when none is.
C1_DampingFromBase ==
    Integrated =>
        /\ linearDamping = FAdd(_baseLinearDamping, FMul(FluidLinearDamping, SubmergedFraction))
        /\ angularDamping = FAdd(_baseAngularDamping, FMul(FluidAngularDamping, SubmergedFraction))
        /\ Cardinality(SubmergedPoints) = Len(TestPoints) =>
              /\ linearDamping = FAdd(_baseLinearDamping, FluidLinearDamping)
              /\ angularDamping = FAdd(_baseAngularDamping, FluidAngularDamping)
        /\ SubmergedPoints = {} =>
              /\ linearDamping = _baseLinearDamping
              /\ angularDamping = _baseAngularDamping

\* a tick with one of two points submerged, after an activation that took a
\* base other than the body's first damping
C1_Witness ==
    /\ Integrated
    /\ Len(TestPoints) = 2
    /\ Cardinality(SubmergedPoints) = 1
    /\ _baseLinearDamping # originalLinearDamping
    /\ linearDamping = FAdd(_baseLinearDamping, Frac(1, 2))

\* ------------------------------------------------------------ C3

\* C3 as stated: a tick with the provider bound, the body simulating and
\* testPoints empty applies no force and leaves the body's linear damping at
\* baseLinearDamping and its angular damping at baseAngularDamping.
C3_EmptyTickResetsDamping ==
    (TickRan /\ OceanManager /\ simulating /\ TestPoints = << >>) =>
        /\ Forces = << >>
        /\ linearDamping = _baseLinearDamping
        /\ angularDamping = _baseAngularDamping

\* C3 amended: a tick with the provider bound, the body simulating and
\* testPoints empty returns before the loop and the damping update: it calls
\* nothing on the body, and the body's damping, velocity and position are
\* what they were before the tick.
C3_EmptyTickChangesNothing ==
    [][(lastOp' = "TickComponent" /\ OceanManager /\ simulating /\ TestPoints = << >>) =>
          /\ calls' = << >>
          /\ UNCHANGED <<dampingVars, motionVars, poseVars>>]_vars

\* an empty tick after the points were removed from a submerged body
C3_Witness ==
    /\ TickRan
    /\ OceanManager
    /\ simulating
    /\ TestPoints = << >>
    /\ linearDamping = FAdd(_baseLinearDamping, FluidLinearDamping)
    /\ linearDamping # _baseLinearDamping

\* ------------------------------------------------------------ C10

\* C10: baseLinearDamping and baseAngularDamping are the body's damping before
\* any fluid contribution: after any sequence of activations and ticks in
\* which no other system sets the body's damping, they equal the body's
\* original damping.
C10_BaseIsOriginalDamping ==
    initialized =>
        /\ _baseLinearDamping = originalLinearDamping
        /\ _baseAngularDamping = originalAngularDamping

\* ------------------------------------------------------------ C2

\* C2: in a tick that reaches the integrator, a force is applied at w_i and
\* the submerged counter is incremented for test point i if and only if
\* h_i > w_i.z + signedRadius, strictly: a point whose h_i equals
\* w_i.z + signedRadius or lies below it gets no force and is not counted, and
\* when no point is submerged no force is applied and the count is 0.
C2_ForceIffStrictlySubmerged ==
    Integrated =>
        /\ \A i \in 1..Len(TestPoints) :
              Submerged(i) <=> (\E k \in 1..Len(Forces) : Forces[k].pointIndex = i - 1)
        /\ \A k \in 1..Len(Forces) :
              /\ Forces[k].at = WorldPointOf(Forces[k].pointIndex + 1)
              /\ \A j \in 1..Len(Forces) : Forces[j].pointIndex = Forces[k].pointIndex => j = k
        /\ PointsUnderWater = Cardinality(SubmergedPoints)
        /\ SubmergedPoints = {} => (Forces = << >> /\ PointsUnderWater = 0)

\* a tick with one point exactly on the boundary, which gets no force, and
\* another point under water, which gets one
C2_Witness ==
    /\ Integrated
    /\ \E i \in 1..Len(TestPoints) :
          /\ SurfaceAt(WorldPointOf(i)) = FAdd(WorldPointOf(i)[3], _SignedRadius)
          /\ \A k \in 1..Len(Forces) : Forces[k].pointIndex # i - 1
    /\ Len(Forces) = 1
    /\ PointsUnderWater = 1

\* ------------------------------------------------------------ C7

\* wave heights -6, -5.5, ..., 6
Heights == {Frac(k, 2) : k \in -12..12}

\* C7: for a submerged test point the depth fraction
\* clamp((h - (w.z + signedRadius)) / (2 * testPointRadius), 0, 1) lies in
\* [0,1], does not decrease as h grows, is 1 whenever h >= w.z + 3 *
\* testPointRadius, and is 1 for every h > w.z when testPointRadius is 0; the
\* division by zero makes no force of a tick infinite or NaN.
C7_DepthFraction ==
    initialized =>
        /\ \A i \in 1..Len(TestPoints) :
              LET w      == WorldPointOf(i)
                  bottom == FAdd(w[3], _SignedRadius)
                  full   == FAdd(w[3], FMul(F(3), TestPointRadius))
              IN  \A h \in Heights \cup {SurfaceAt(w)} :
                     FLess(bottom, h) =>
                        /\ FLeq(Zero, DepthMultiplier(h, w))
                        /\ FLeq(DepthMultiplier(h, w), One)
                        /\ FLeq(full, h) => DepthMultiplier(h, w) = One
                        /\ (TestPointRadius = Zero /\ FLess(w[3], h)) =>
                              DepthMultiplier(h, w) = One
                        /\ \A g \in Heights :
                              FLeq(h, g) => FLeq(DepthMultiplier(h, w), DepthMultiplier(g, w))
        /\ Integrated =>
              \A k \in 1..Len(Forces) : \A c \in 1..3 : IsFinite(Forces[k].force[c])

\* a tick with testPointRadius 0 that applied a force to a submerged point
C7_Witness ==
    /\ Integrated
    /\ TestPointRadius = Zero
    /\ Len(Forces) > 0
    /\ \E i \in SubmergedPoints :
          DepthMultiplier(SurfaceAt(WorldPointOf(i)), WorldPointOf(i)) = One

\* ------------------------------------------------------------ C8

\* density_i: pointDensityOverride[i] when i is a valid index, else meshDensity
DensityOf(i) ==
    IF i <= Len(PointDensityOverride) THEN PointDensityOverride[i] ELSE F(MeshDensity)

DepthFractionOf(i) == DepthMultiplier(SurfaceAt(WorldPointOf(i)), WorldPointOf(i))

\* (bodyMass / density_i) * fluidDensity * (-gravityZ) / totalPoints * depthFraction
BuoyantForceOf(i) ==
    FMul(FDiv(FMul(FMul(FDiv(mass, DensityOf(i)), F(FluidDensity)), FNeg(gravityZ)),
              F(Len(TestPoints))),
         DepthFractionOf(i))

\* -velocityAtPoint(w_i) (.) velocityDamper * bodyMass * depthFraction
DampingForceOf(i) ==
    LET v == IF bodyInstanceValid
             THEN VAdd(linearVelocity, VCross(angularVelocity, VSub(WorldPointOf(i), location)))
             ELSE ZeroVector
    IN  VScale(VScale(VMulV(VNeg(v), VelocityDamper), mass), DepthFractionOf(i))

\* C8: the force applied at a submerged point i is the damping force plus, on
\* the z axis, (bodyMass / density_i) * fluidDensity * (-gravityZ) /
\* totalPoints * depthFraction, where density_i is pointDensityOverride[i]
\* when i is a valid index of pointDensityOverride and meshDensity otherwise:
\* points past the end of a shorter override list use meshDensity, and an
\* override changes the force of its own point only.
C8_BuoyantForce ==
    [][IntegratingTick =>
          \A k \in 1..Len(ForceCalls(calls')) :
             LET c == ForceCalls(calls')[k]
                 i == c.pointIndex + 1
             IN  /\ i \in 1..Len(TestPoints)
                 /\ c.force[1] = DampingForceOf(i)[1]
                 /\ c.force[2] = DampingForceOf(i)[2]
                 /\ c.force[3] = FAdd(DampingForceOf(i)[3], BuoyantForceOf(i))]_vars

\* a tick with two submerged points and an override for the first only: the
\* first is lifted by its override density, the second by meshDensity
C8_Witness ==
    /\ Integrated
    /\ Len(TestPoints) = 2
    /\ Len(PointDensityOverride) = 1
    /\ Len(Forces) = 2
    /\ gravityZ = F(-980)
    /\ PointDensityOverride[1] # F(MeshDensity)
    /\ Forces[1].force[3] # Forces[2].force[3]

\* ------------------------------------------------------------ C4

Dot(u, v) == FAdd(FAdd(FMul(u[1], v[1]), FMul(u[2], v[2])), FMul(u[3], v[3]))

\* u points the way v does
SameDirection(u, v) == VCross(u, v) = ZeroVector /\ FLess(Zero, Dot(u, v))

\* clamping is enabled, a point is submerged in this tick and the body is
\* faster than maxUnderwaterVelocity
ClampCase ==
    /\ ClampMaxVelocity
    /\ SubmergedPoints # {}
    /\ FLess(MaxUnderwaterVelocity, Size(linearVelocity))

VelocityCalls(log) == CallsOf(log, "SetPhysicsLinearVelocity")

\* the tick leaves the linear velocity alone
VelocityNotSet == linearVelocity' = linearVelocity /\ VelocityCalls(calls') = << >>

\* C4 as stated: at the end of an integrating tick, if clampMaxVelocity is
\* true, a point was submerged and the speed is greater than
\* maxUnderwaterVelocity, the new velocity has speed exactly
\* maxUnderwaterVelocity and the direction it had, for every value of
\* maxUnderwaterVelocity; otherwise the tick does not set the velocity.
C4_ClampForEveryMaximum ==
    [][IntegratingTick =>
          IF ClampCase
          THEN /\ Size(linearVelocity') = MaxUnderwaterVelocity
               /\ SameDirection(linearVelocity', linearVelocity)
          ELSE VelocityNotSet]_vars

\* the squared speed is at least SMALL_NUMBER, 1e-8: the speed is at least 1e-4
SpeedAboveTolerance == ~FLess(Size(linearVelocity), Frac(1, 10000))

\* C4 amended: in the clamp case the tick sets the velocity; when
\* maxUnderwaterVelocity is positive and the speed is at least 1e-4 (so that
\* GetSafeNormal does not return the zero vector) the new velocity has speed
\* exactly maxUnderwaterVelocity and the direction it had, and when
\* maxUnderwaterVelocity is 0 the new velocity is zero; outside the clamp case
\* the tick does not set the velocity.
C4_ClampForPositiveMaximum ==
    [][IntegratingTick =>
          IF ClampCase
          THEN /\ Len(VelocityCalls(calls')) = 1
               /\ VelocityCalls(calls')[1].v = linearVelocity'
               /\ (FLess(Zero, MaxUnderwaterVelocity) /\ SpeedAboveTolerance) =>
                     /\ Size(linearVelocity') = MaxUnderwaterVelocity
                     /\ SameDirection(linearVelocity', linearVelocity)
               /\ MaxUnderwaterVelocity = Zero => linearVelocity' = ZeroVector
          ELSE VelocityNotSet]_vars

\* a tick that clamped a velocity of (6, 8, 0) to (3, 4, 0), speed 5
C4_Witness ==
    /\ Integrated
    /\ ClampMaxVelocity
    /\ MaxUnderwaterVelocity = F(5)
    /\ Len(VelocityCalls(calls)) = 1
    /\ linearVelocity = IVec(3, 4, 0)

\* ------------------------------------------------------------ C5

\* C5: a tick with the provider bound and the body not simulating physics
\* moves the body to its own x and y and the wave height sampled at its
\* location, applies no force and changes neither the body's velocity nor its
\* linear or angular damping, whether or not testPoints is empty.
C5_KinematicSnap ==
    [][(lastOp' = "TickComponent" /\ OceanManager /\ ~simulating) =>
          /\ location' = Vec(location[1], location[2], SurfaceAt(location))
          /\ ForceCalls(calls') = << >>
          /\ VelocityCalls(calls') = << >>
          /\ CallsOf(calls', "SetLinearDamping") = << >>
          /\ CallsOf(calls', "SetAngularDamping") = << >>
          /\ UNCHANGED <<motionVars, dampingVars, yaw>>]_vars

\* a non-simulating body with test points, still carrying the damping of an
\* earlier submerged tick, standing on a sloped surface away from the origin
C5_Witness ==
    /\ TickRan
    /\ OceanManager
    /\ ~simulating
    /\ TestPoints # << >>
    /\ location[1] # Zero
    /\ wave.a # Zero
    /\ location[3] = SurfaceAt(location)
    /\ linearDamping # _baseLinearDamping

\* ------------------------------------------------------------ C6

\* C6: a tick without a wave-field provider is a no-op whatever the body's
\* simulation flag and the test points are: no force, no snap of the
\* position, velocity and damping unchanged.
C6_NoProviderNoOp ==
    [][(lastOp' = "TickComponent" /\ ~OceanManager) =>
          /\ calls' = << >>
          /\ UNCHANGED <<poseVars, motionVars, dampingVars>>]_vars

\* a tick without provider on a non-simulating body that stays off the surface
C6_Witness ==
    /\ TickRan
    /\ ~OceanManager
    /\ ~simulating
    /\ location[3] # SurfaceAt(location)

\* ------------------------------------------------------------ C9

SignOf(a) == IF a.n > 0 THEN F(1) ELSE IF a.n < 0 THEN F(-1) ELSE F(0)

\* C9: InitializeComponent leaves testPointRadius at the absolute value of its
\* configured value, so non-negative, and signedRadius at sign(gravityZ) *
\* testPointRadius; no TickComponent changes either, so signedRadius keeps
\* the sign of the gravity seen at initialization.
C9_RadiusNormalizedOnce ==
    [][/\ lastOp' = "InitializeComponent" =>
             /\ TestPointRadius' = (IF TestPointRadius.n < 0 THEN FNeg(TestPointRadius)
                                    ELSE TestPointRadius)
             /\ TestPointRadius'.n >= 0
             /\ _SignedRadius' = FMul(SignOf(gravityZ), TestPointRadius')
       /\ lastOp' = "TickComponent" => UNCHANGED <<TestPointRadius, _SignedRadius>>]_vars

\* after a tick: the radius configured as -2 is 2, and signedRadius still has
\* the sign of the gravity at initialization, not of the gravity now
C9_Witness ==
    /\ TickRan
    /\ TestPointRadius = F(2)
    /\ _SignedRadius = F(-2)
    /\ gravityZ = F(980)

=============================================================================
